---- MODULE Spec2Model ----
(***************************************************************************)
(* Tenancy-agreement lifecycle and role-based access control of the        *)
(* BrickBase server (src/index.js).  The state is the MongoDB collections  *)
(* the modelled routes read and write, the last response, and the requests *)
(* in flight.  Spec and FormSpec take every request as one step: a route   *)
(* is an operator from the current state and the request to its outcome    *)
(* (status code and the collections as it leaves them), and an action that *)
(* takes that outcome, the whole middleware chain and handler at once.     *)
(* StatsSpec applies the occupancy statistics to snapshots of apartments   *)
(* and agreements.  StepSpec runs concurrent requests one awaited call at  *)
(* a time, each of which may throw.  A document's _id is its position in   *)
(* its collection (documents are never deleted).                           *)
(***************************************************************************)
EXTENDS Integers, Sequences, FiniteSets, Bags, TLC

VARIABLES agreementsCollection, usersCollection, apartmentsCollection, res,
          requests

vars == <<agreementsCollection, usersCollection, apartmentsCollection, res,
          requests>>

(* ------------------------------ bounds -------------------------------- *)
MaxAgreements == 2
MaxUsers == 3
MaxApartments == 2
MaxRequests == 2

(* ------------------------------ values -------------------------------- *)
\* A field the JSON body does not carry (JavaScript undefined).
Undefined == "undefined"
\* JavaScript truthiness of a string-or-undefined value.
Falsy(v) == v \in {Undefined, ""}

\* Emails that request bodies carry; "" is a string JavaScript treats as falsy.
Emails == {"", "a"}
Blocks == {"B1"}
ApartmentNos == {"101", "102"}
\* The value new Date() yields, and the only date a body carries.
Now == "date"
Dates == {Undefined, Now}

(* ------------------- authorization header and token ------------------- *)
\* A header is absent (<<>>) or present (<<s>>) with s its characters.
NoHeader == <<>>
Hdr(s) == <<s>>
Headers ==
    {NoHeader, Hdr(<<>>), Hdr(<<"B">>), Hdr(<<"a">>), Hdr(<<"B", " ">>),
     Hdr(<<"B", " ", "x">>), Hdr(<<"B", " ", "a">>), Hdr(<<"B", " ", "r">>)}

\* The headers that carry the tokens of principals a and r.
HeaderA == Hdr(<<"B", " ", "a">>)
HeaderR == Hdr(<<"B", " ", "r">>)

\* String.prototype.split(" ")
RECURSIVE SplitAcc(_, _, _)
SplitAcc(s, cur, acc) ==
    IF s = <<>> THEN Append(acc, cur)
    ELSE IF Head(s) = " " THEN SplitAcc(Tail(s), <<>>, Append(acc, cur))
    ELSE SplitAcc(Tail(s), Append(cur, Head(s)), acc)
Split(s) == SplitAcc(s, <<>>, <<>>)

\* Mutant: the token is taken from the first word of the header.
TokenOfFirstWord(s) == <<Split(s)[1]>>

\* authHeader.split(" ")[1]: absent (<<>>) or present (<<word>>).
TokenOf(s) == IF Len(Split(s)) >= 2 THEN <<Split(s)[2]>> ELSE <<>>

\* admin.auth().verifyIdToken(token): the tokens the identity provider
\* accepts, each carrying the email of its principal; any other token throws.
ValidTokens == {<<"a">>, <<"r">>}
VerifyIdToken(token) == IF token \in ValidTokens THEN <<token[1]>> ELSE <<>>

\* verifyFirebaseToken: [code, msg, email]; code 0 means next() was called
\* with req.decoded.email = email.
verifyFirebaseToken(h) ==
    IF h = NoHeader \/ h[1] = <<>>
    THEN [code |-> 401, msg |-> "Unauthorized Access", email |-> ""]
    ELSE IF TokenOf(h[1]) = <<>> \/ TokenOf(h[1])[1] = <<>>
    THEN [code |-> 401, msg |-> "Unauthorized Access", email |-> ""]
    ELSE IF VerifyIdToken(TokenOf(h[1])[1]) = <<>>
    THEN [code |-> 403, msg |-> "Forbidden Access", email |-> ""]
    ELSE [code |-> 0, msg |-> "", email |-> VerifyIdToken(TokenOf(h[1])[1])[1]]

\* verifyFirebaseToken over the headers of the model, computed once.
Authenticate == [h \in Headers |-> verifyFirebaseToken(h)]

(* --------------------------- store queries ---------------------------- *)
\* collection.findOne(filter), given the positions the filter matches: the
\* first of them, 0 when there is none.
FindOne(matches) ==
    IF matches = {} THEN 0 ELSE CHOOSE i \in matches : \A j \in matches : i <= j

\* The positions of a collection whose document has this email.
ByEmail(coll, email) == {i \in 1..Len(coll) : coll[i].email = email}

\* collection.updateOne({_id}, {$set: fields}) on the document at position i.
SetStatus(coll, i, st, date) ==
    IF i \in 1..Len(coll)
    THEN [coll EXCEPT ![i].status = st,
                      ![i].acceptedDate = IF date = Undefined THEN @ ELSE date]
    ELSE coll
SetRole(coll, i, role) ==
    IF i \in 1..Len(coll) THEN [coll EXCEPT ![i].role = role] ELSE coll

\* Mutant: every id is taken as well-formed.
ObjectIdIsValidLax(id) == id >= 0

\* ObjectId.isValid(id): ids are numbers here, 0 stands for every string
\* that is no well-formed ObjectId.
ObjectIdIsValid(id) == id >= 1

(* ----------------------------- role gates ----------------------------- *)
\* Mutant: roles are ranked, an admin passes every gate.
RoleGateRanked(email, role) ==
    LET i == FindOne(ByEmail(usersCollection, email))
    IN IF i = 0 \/ usersCollection[i].role \notin {role, "admin"} THEN 403 ELSE 0

\* The role check shared by verifyUser, verifyMember and verifyAdmin: the
\* status it answers with, 0 when it calls next().
RoleGate(email, role) ==
    LET i == FindOne(ByEmail(usersCollection, email))
    IN IF i = 0 \/ usersCollection[i].role # role THEN 403 ELSE 0
verifyUser(email) == RoleGate(email, "user")
verifyMember(email) == RoleGate(email, "member")
verifyAdmin(email) == RoleGate(email, "admin")

\* An outcome: the status code answered and the collections afterwards.
Out(code, agreements, users) ==
    [code |-> code, agreements |-> agreements, users |-> users]
\* A response that leaves the collections alone.
Send(code) == Out(code, agreementsCollection, usersCollection)

(* -------------------------- POST /agreements -------------------------- *)
\* The bodies a client sends: the form's (status pending), one that claims
\* approval, and one without status that carries an acceptedDate.
AgreementBodies ==
    {b \in [email : Emails, blockName : Blocks, apartmentNo : ApartmentNos,
            status : {Undefined, "pending", "checked"}, acceptedDate : Dates] :
        (b.status = Undefined) <=> (b.acceptedDate # Undefined)}

\* Mutant: only a pending agreement counts as existing.
ExistingAgreementPendingOnly(agreementData) ==
    FindOne({i \in ByEmail(agreementsCollection, agreementData.email) :
                agreementsCollection[i].status = "pending"})

\* Step 1 of the handler: the agreement findOne returns, 0 when none.
ExistingAgreement(agreementData) ==
    FindOne({i \in ByEmail(agreementsCollection, agreementData.email) :
                agreementsCollection[i].status \in {"pending", "checked"}})

\* Mutant: any checked agreement on the apartment blocks, whatever its
\* owner's role.
MemberUserAnyRole(agreementData) ==
    FindOne({i \in 1..Len(agreementsCollection) :
                /\ agreementsCollection[i].blockName = agreementData.blockName
                /\ agreementsCollection[i].apartmentNo = agreementData.apartmentNo
                /\ agreementsCollection[i].status = "checked"})

\* Step 2 of the handler: the user findOne returns, 0 when none or when no
\* checked agreement names the apartment.
MemberUser(agreementData) ==
    LET checkedAgreements ==
            {i \in 1..Len(agreementsCollection) :
                /\ agreementsCollection[i].blockName = agreementData.blockName
                /\ agreementsCollection[i].apartmentNo = agreementData.apartmentNo
                /\ agreementsCollection[i].status = "checked"}
        emails == {agreementsCollection[i].email : i \in checkedAgreements}
    IN IF Cardinality(checkedAgreements) > 0
       THEN FindOne({u \in 1..Len(usersCollection) :
                        /\ usersCollection[u].email \in emails
                        /\ usersCollection[u].role = "member"})
       ELSE 0

PostAgreementsHandler(agreementData) ==
    IF ExistingAgreement(agreementData) # 0 THEN Send(400)
    ELSE IF MemberUser(agreementData) # 0 THEN Send(400)
    ELSE Out(200, Append(agreementsCollection, agreementData), usersCollection)

PostAgreementsRoute(h, agreementData) ==
    LET auth == Authenticate[h]
    IN IF auth.code # 0 THEN Send(auth.code)
       ELSE IF verifyUser(auth.email) # 0 THEN Send(verifyUser(auth.email))
       ELSE PostAgreementsHandler(agreementData)

(* ----------------------- PATCH /agreements/:id ------------------------ *)
PatchAgreementsHandler(id, status, role) ==
    IF ~ObjectIdIsValid(id) THEN Send(400)
    ELSE LET newStatus == IF Falsy(status) THEN "checked" ELSE status
             acceptedDate == IF role = "member" THEN Now ELSE Undefined
             updated == SetStatus(agreementsCollection, id, newStatus, acceptedDate)
             userEmail == IF id \in 1..Len(updated) THEN updated[id].email
                          ELSE Undefined
         IN Out(200, updated,
                IF role = "member" /\ ~Falsy(userEmail)
                THEN SetRole(usersCollection,
                             FindOne(ByEmail(usersCollection, userEmail)), "member")
                ELSE usersCollection)

PatchAgreementsRoute(h, id, status, role) ==
    LET auth == Authenticate[h]
    IN IF auth.code # 0 THEN Send(auth.code)
       ELSE IF verifyAdmin(auth.email) # 0 THEN Send(verifyAdmin(auth.email))
       ELSE PatchAgreementsHandler(id, status, role)

(* ----------------------------- POST /users ---------------------------- *)
PostUsersRoute(user) ==
    IF FindOne(ByEmail(usersCollection, user.email)) # 0
    THEN Send(200)
    ELSE Out(200, agreementsCollection, Append(usersCollection, user))

(* --------------------------- PATCH /users/:id ------------------------- *)
\* new ObjectId(id) throws on a malformed id and the handler has no try:
\* the request changes nothing and is never answered (code 0).
PatchUsersHandler(id, role) ==
    IF ~ObjectIdIsValid(id) THEN Send(0)
    ELSE Out(200, agreementsCollection, SetRole(usersCollection, id, role))

PatchUsersRoute(h, id, role) ==
    LET auth == Authenticate[h]
    IN IF auth.code # 0 THEN Send(auth.code)
       ELSE IF verifyAdmin(auth.email) # 0 THEN Send(verifyAdmin(auth.email))
       ELSE PatchUsersHandler(id, role)

(* ----------------------------- GET /payments -------------------------- *)
GetPaymentsHandler(email) == IF Falsy(email) THEN Send(400) ELSE Send(200)

GetPaymentsRoute(h, email) ==
    LET auth == Authenticate[h]
    IN IF auth.code # 0 THEN Send(auth.code)
       ELSE IF verifyMember(auth.email) # 0 THEN Send(verifyMember(auth.email))
       ELSE GetPaymentsHandler(email)

(* ------------------------------ requests ------------------------------ *)
DecideStatuses == {Undefined, "pending", "rejected"}
DecideRoles == {Undefined, "member"}
AgreementIds == 0..(MaxAgreements + 1)
UserIds == 0..(MaxUsers + 1)
UserBodies == [email : Emails, role : {"user", "member"}]
RoleBodies == {"user", "member"}
PaymentQueries == Emails \cup {Undefined}

(* ------------------------------ actions ------------------------------- *)
\* A completed request: its outcome becomes the state.  A request that is
\* never answered is no step, and the collections are kept within the bounds.
Completes(o) ==
    /\ o.code # 0
    /\ Len(o.agreements) <= MaxAgreements
    /\ Len(o.users) <= MaxUsers
Take(o) ==
    /\ res' = [code |-> o.code]
    /\ agreementsCollection' = o.agreements
    /\ usersCollection' = o.users
    /\ UNCHANGED <<apartmentsCollection, requests>>

PostAgreements(h, agreementData) ==
    LET o == PostAgreementsRoute(h, agreementData) IN Completes(o) /\ Take(o)
PatchAgreements(h, id, status, role) ==
    LET o == PatchAgreementsRoute(h, id, status, role) IN Completes(o) /\ Take(o)
PostUsers(user) ==
    LET o == PostUsersRoute(user) IN Completes(o) /\ Take(o)
PatchUsers(h, id, role) ==
    LET o == PatchUsersRoute(h, id, role) IN Completes(o) /\ Take(o)
GetPayments(h, email) ==
    LET o == GetPaymentsRoute(h, email) IN Completes(o) /\ Take(o)

(* --------------------------- specification ---------------------------- *)
\* The store of a deployed system: one administrator, nothing else.
Init ==
    /\ agreementsCollection = <<>>
    /\ usersCollection = <<[email |-> "r", role |-> "admin"]>>
    /\ apartmentsCollection = <<>>
    /\ res = [code |-> 0]
    /\ requests = EmptyBag

\* The guards read neither body nor parameters: for a request they reject
\* one value stands for all of S.
Reached(h, role, S) ==
    IF Authenticate[h].code = 0 /\ RoleGate(Authenticate[h].email, role) = 0
    THEN S
    ELSE {CHOOSE x \in S : TRUE}

\* The requests of each route.
Submit(Bodies) ==
    \E h \in Headers : \E b \in Reached(h, "user", Bodies) :
        PostAgreements(h, b)
Decide ==
    \E h \in Headers :
      \E d \in Reached(h, "admin", AgreementIds \X DecideStatuses \X DecideRoles) :
        PatchAgreements(h, d[1], d[2], d[3])
CreateUser == \E u \in UserBodies : PostUsers(u)
ChangeRole ==
    \E h \in Headers : \E d \in Reached(h, "admin", UserIds \X RoleBodies) :
        PatchUsers(h, d[1], d[2])
ListPayments ==
    \E h \in Headers : \E e \in Reached(h, "member", PaymentQueries) :
        GetPayments(h, e)

Next ==
    \/ Submit(AgreementBodies)
    \/ Decide
    \/ CreateUser
    \/ ChangeRole
    \/ ListPayments

Spec == Init /\ [][Next]_vars

\* The same server when every submitted body is the one the client's form
\* sends: status pending, no acceptedDate.
FormBodies ==
    {b \in AgreementBodies : b.status = "pending" /\ b.acceptedDate = Undefined}

FormNext ==
    \/ Submit(FormBodies)
    \/ Decide
    \/ CreateUser
    \/ ChangeRole
    \/ ListPayments

FormSpec == Init /\ [][FormNext]_vars

(* ------------------------ GET /apartments/stats ----------------------- *)
\* Names are character sequences here: the handler compares apartments and
\* agreements by the text `${blockName}-${apartmentNo}`.
StatsBlocks == {<<"A">>, <<"A", "-", "1">>}
StatsApartmentNos == {<<"2">>, <<"1", "-", "2">>}
OccupiedKey(doc) == doc.blockName \o <<"-">> \o doc.apartmentNo

\* (x / total * 100).toFixed(2): a string, kept as the hundredths it shows.
ToFixed2(x, total) == [fixed |-> (2 * x * 10000 + total) \div (2 * total)]

\* The handler's computation on the two arrays it read.
ApartmentStats(apartments, agreements) ==
    LET checked == {j \in 1..Len(agreements) : agreements[j].status = "checked"}
        occupiedMap == {OccupiedKey(agreements[j]) : j \in checked}
        total == Len(apartments)
        unavailable == Cardinality({i \in 1..Len(apartments) :
                                      OccupiedKey(apartments[i]) \in occupiedMap})
        available == total - unavailable
    IN [total |-> total, unavailable |-> unavailable, available |-> available,
        availablePercentage |->
            IF total # 0 THEN ToFixed2(available, total) ELSE 0,
        unavailablePercentage |->
            IF total # 0 THEN ToFixed2(unavailable, total) ELSE 0]

\* The route: the body it sends, or 500 when a read of the store throws.
GetApartmentsStats(failed) ==
    /\ res' = IF failed THEN [code |-> 500]
              ELSE LET st == ApartmentStats(apartmentsCollection,
                                            agreementsCollection)
                   IN [code |-> 200, total |-> st.total,
                       availablePercentage |-> st.availablePercentage,
                       unavailablePercentage |-> st.unavailablePercentage]
    /\ UNCHANGED <<agreementsCollection, usersCollection, apartmentsCollection,
                   requests>>

\* Sequences over S of length at most n.
SeqsUpTo(S, n) == UNION {[1..k -> S] : k \in 0..n}

StatsApartments == [blockName : StatsBlocks, apartmentNo : StatsApartmentNos]
StatsAgreements ==
    [email : {"a"}, blockName : StatsBlocks, apartmentNo : StatsApartmentNos,
     status : {"pending", "checked", "rejected"}, acceptedDate : {Undefined}]

\* Any snapshot of apartments and agreements.
StatsInit ==
    /\ apartmentsCollection \in SeqsUpTo(StatsApartments, MaxApartments)
    /\ agreementsCollection \in SeqsUpTo(StatsAgreements, MaxAgreements)
    /\ usersCollection = <<>>
    /\ res = [code |-> 0]
    /\ requests = EmptyBag

StatsNext == \E failed \in BOOLEAN : GetApartmentsStats(failed)

StatsSpec == StatsInit /\ [][StatsNext]_vars

(* ------------------- requests, one store call at a time --------------- *)
\* Every await of a middleware or handler is a step of its request; between
\* two of them the steps of other requests may run.  requests is the bag of
\* the requests in flight: each carries its route, header and arguments, the
\* call it awaits (pc), req.decoded.email and the handler's local value.
\* A call either returns or throws (fault).
NewRequest(route, h, arg, pc) ==
    [route |-> route, h |-> h, arg |-> arg, pc |-> pc,
     email |-> Undefined, local |-> Undefined]

\* The response is sent and the request is over.
Respond(r, code) ==
    /\ requests' = requests (-) SetToBag({r})
    /\ res' = [code |-> code]
\* The request goes on to its next await.
Await(r, pc, local) ==
    /\ requests' = (requests (-) SetToBag({r}))
                        (+) SetToBag({[r EXCEPT !.pc = pc, !.local = local]})
    /\ res' = res
KeepStores == UNCHANGED <<agreementsCollection, usersCollection,
                          apartmentsCollection>>

\* Mutant: a handler's catch answers as if the request had succeeded.
ThrownSwallowed(r) ==
    IF r.pc = "verifyIdToken" THEN {403}
    ELSE IF r.pc = "verifyRole" \/ r.route = "POST /users" THEN {0, 500}
    ELSE {200}

\* What a request is answered when the call it awaits throws: verifyIdToken
\* is caught with 403, the handlers of /agreements catch with 500, and the
\* role gates and POST /users have no try: the rejection is unhandled, and
\* the request is never answered (0) or answered 500 by the framework.
Thrown(r) ==
    IF r.pc = "verifyIdToken" THEN {403}
    ELSE IF r.pc = "verifyRole" \/ r.route = "POST /users" THEN {0, 500}
    ELSE {500}

\* Mutant: the collection has a unique index on email and keeps the first
\* document of each email.
InsertOneUniqueEmail(coll, doc) ==
    IF \E i \in 1..Len(coll) : coll[i].email = doc.email
    THEN coll ELSE Append(coll, doc)

\* collection.insertOne(doc)
InsertOne(coll, doc) == Append(coll, doc)

\* The role a route's gate asks for.
GateRole(route) == IF route = "POST /agreements" THEN "user" ELSE "admin"

\* A request arrives: the synchronous part of verifyFirebaseToken, or for
\* POST /users the handler's start.
Arrive(route, h, arg) ==
    /\ BagCardinality(requests) < MaxRequests
    /\ KeepStores
    /\ IF route = "POST /users"
       THEN /\ requests' = requests
                    (+) SetToBag({NewRequest(route, h, arg, "existingUser")})
            /\ res' = res
       ELSE IF Authenticate[h].code = 401
       THEN requests' = requests /\ res' = [code |-> 401]
       ELSE /\ requests' = requests
                    (+) SetToBag({NewRequest(route, h, arg, "verifyIdToken")})
            /\ res' = res

\* await admin.auth().verifyIdToken(token)
VerifyIdTokenStep(r, fault) ==
    /\ r.pc = "verifyIdToken"
    /\ KeepStores
    /\ IF fault THEN \E code \in Thrown(r) : Respond(r, code)
       ELSE IF Authenticate[r.h].code # 0 THEN Respond(r, Authenticate[r.h].code)
       ELSE /\ requests' = (requests (-) SetToBag({r}))
                    (+) SetToBag({[r EXCEPT !.pc = "verifyRole",
                                            !.email = Authenticate[r.h].email]})
            /\ res' = res

\* await usersCollection.findOne({email}) of the role gate, then the handler
\* up to its first await.
VerifyRoleStep(r, fault) ==
    /\ r.pc = "verifyRole"
    /\ KeepStores
    /\ IF fault THEN \E code \in Thrown(r) : Respond(r, code)
       ELSE IF RoleGate(r.email, GateRole(r.route)) # 0
       THEN Respond(r, RoleGate(r.email, GateRole(r.route)))
       ELSE IF r.route = "POST /agreements"
       THEN Await(r, "existingAgreement", Undefined)
       ELSE IF ~ObjectIdIsValid(r.arg[1]) THEN Respond(r, 400)
       ELSE Await(r, "updateOne", Undefined)

\* POST /agreements: await agreementsCollection.findOne (step 1)
ExistingAgreementStep(r, fault) ==
    /\ r.pc = "existingAgreement"
    /\ KeepStores
    /\ IF fault THEN \E code \in Thrown(r) : Respond(r, code)
       ELSE IF ExistingAgreement(r.arg) # 0 THEN Respond(r, 400)
       ELSE Await(r, "checkedAgreements", Undefined)

\* POST /agreements: await agreementsCollection.find(...).toArray() (step 2)
CheckedAgreementsStep(r, fault) ==
    /\ r.pc = "checkedAgreements"
    /\ KeepStores
    /\ IF fault THEN \E code \in Thrown(r) : Respond(r, code)
       ELSE LET emails ==
                  {agreementsCollection[i].email : i \in
                    {i \in 1..Len(agreementsCollection) :
                        /\ agreementsCollection[i].blockName = r.arg.blockName
                        /\ agreementsCollection[i].apartmentNo = r.arg.apartmentNo
                        /\ agreementsCollection[i].status = "checked"}}
            IN IF emails # {} THEN Await(r, "memberUser", emails)
               ELSE Await(r, "insertOne", Undefined)

\* POST /agreements: await usersCollection.findOne({email: {$in: emails}, ...})
MemberUserStep(r, fault) ==
    /\ r.pc = "memberUser"
    /\ KeepStores
    /\ IF fault THEN \E code \in Thrown(r) : Respond(r, code)
       ELSE IF \E u \in 1..Len(usersCollection) :
                    /\ usersCollection[u].email \in r.local
                    /\ usersCollection[u].role = "member"
       THEN Respond(r, 400)
       ELSE Await(r, "insertOne", Undefined)

\* POST /agreements: await agreementsCollection.insertOne(agreementData)
InsertAgreementStep(r, fault) ==
    /\ r.pc = "insertOne"
    /\ UNCHANGED <<usersCollection, apartmentsCollection>>
    /\ IF fault
       THEN (\E code \in Thrown(r) : Respond(r, code))
            /\ UNCHANGED agreementsCollection
       ELSE /\ Len(agreementsCollection) < MaxAgreements
            /\ agreementsCollection' = InsertOne(agreementsCollection, r.arg)
            /\ Respond(r, 200)

\* PATCH /agreements/:id: await agreementsCollection.updateOne(filter, ...)
UpdateAgreementStep(r, fault) ==
    /\ r.pc = "updateOne"
    /\ UNCHANGED <<usersCollection, apartmentsCollection>>
    /\ IF fault
       THEN (\E code \in Thrown(r) : Respond(r, code))
            /\ UNCHANGED agreementsCollection
       ELSE /\ agreementsCollection' =
                    SetStatus(agreementsCollection, r.arg[1],
                              IF Falsy(r.arg[2]) THEN "checked" ELSE r.arg[2],
                              IF r.arg[3] = "member" THEN Now ELSE Undefined)
            /\ IF r.arg[3] = "member" THEN Await(r, "agreement", Undefined)
               ELSE Respond(r, 200)

\* PATCH /agreements/:id: await agreementsCollection.findOne(filter)
FindAgreementStep(r, fault) ==
    /\ r.pc = "agreement"
    /\ KeepStores
    /\ IF fault THEN \E code \in Thrown(r) : Respond(r, code)
       ELSE LET userEmail ==
                    IF r.arg[1] \in 1..Len(agreementsCollection)
                    THEN agreementsCollection[r.arg[1]].email ELSE Undefined
            IN IF Falsy(userEmail) THEN Respond(r, 200)
               ELSE Await(r, "updateUser", userEmail)

\* PATCH /agreements/:id: await usersCollection.updateOne({email: userEmail}, ...)
UpdateUserStep(r, fault) ==
    /\ r.pc = "updateUser"
    /\ UNCHANGED <<agreementsCollection, apartmentsCollection>>
    /\ IF fault
       THEN (\E code \in Thrown(r) : Respond(r, code)) /\ UNCHANGED usersCollection
       ELSE /\ usersCollection' =
                    SetRole(usersCollection,
                            FindOne(ByEmail(usersCollection, r.local)), "member")
            /\ Respond(r, 200)

\* POST /users: await usersCollection.findOne({email})
ExistingUserStep(r, fault) ==
    /\ r.pc = "existingUser"
    /\ KeepStores
    /\ IF fault THEN \E code \in Thrown(r) : Respond(r, code)
       ELSE IF FindOne(ByEmail(usersCollection, r.arg.email)) # 0
       THEN Respond(r, 200)
       ELSE Await(r, "insertUser", Undefined)

\* POST /users: await usersCollection.insertOne(user)
InsertUserStep(r, fault) ==
    /\ r.pc = "insertUser"
    /\ UNCHANGED <<agreementsCollection, apartmentsCollection>>
    /\ IF fault
       THEN (\E code \in Thrown(r) : Respond(r, code)) /\ UNCHANGED usersCollection
       ELSE /\ Len(usersCollection) < MaxUsers
            /\ usersCollection' = InsertOne(usersCollection, r.arg)
            /\ Respond(r, 200)

\* The requests of the step-wise specification: callers a and r, one form
\* body, decisions on the first agreement, one new user.
StepHeaders == {HeaderA, HeaderR}
StepBodies == {b \in FormBodies : b.email = "a" /\ b.apartmentNo = "101"}
StepDecisions == {1} \X {Undefined} \X DecideRoles
StepUsers == {[email |-> "a", role |-> "user"]}

InFlight == BagToSet(requests)

StepNext ==
    \/ \E h \in StepHeaders, b \in StepBodies : Arrive("POST /agreements", h, b)
    \/ \E h \in StepHeaders, d \in StepDecisions :
            Arrive("PATCH /agreements/:id", h, d)
    \/ \E u \in StepUsers : Arrive("POST /users", NoHeader, u)
    \/ \E r \in InFlight, fault \in BOOLEAN : VerifyIdTokenStep(r, fault)
    \/ \E r \in InFlight, fault \in BOOLEAN : VerifyRoleStep(r, fault)
    \/ \E r \in InFlight, fault \in BOOLEAN : ExistingAgreementStep(r, fault)
    \/ \E r \in InFlight, fault \in BOOLEAN : CheckedAgreementsStep(r, fault)
    \/ \E r \in InFlight, fault \in BOOLEAN : MemberUserStep(r, fault)
    \/ \E r \in InFlight, fault \in BOOLEAN : InsertAgreementStep(r, fault)
    \/ \E r \in InFlight, fault \in BOOLEAN : UpdateAgreementStep(r, fault)
    \/ \E r \in InFlight, fault \in BOOLEAN : FindAgreementStep(r, fault)
    \/ \E r \in InFlight, fault \in BOOLEAN : UpdateUserStep(r, fault)
    \/ \E r \in InFlight, fault \in BOOLEAN : ExistingUserStep(r, fault)
    \/ \E r \in InFlight, fault \in BOOLEAN : InsertUserStep(r, fault)

StepSpec == Init /\ [][StepNext]_vars

(* ======================= properties of the model ====================== *)
Agreements == 1..Len(agreementsCollection)
Users == 1..Len(usersCollection)
\* Some user record with this email holds this role.
HasRole(email, role) ==
    \E u \in Users :
        usersCollection[u].email = email /\ usersCollection[u].role = role
\* The email owns an agreement that is pending or checked.
Active(email) ==
    \E i \in Agreements :
        /\ agreementsCollection[i].email = email
        /\ agreementsCollection[i].status \in {"pending", "checked"}
\* The apartment has a checked agreement whose owner is a member.
Occupied(blockName, apartmentNo) ==
    \E i \in Agreements :
        /\ agreementsCollection[i].blockName = blockName
        /\ agreementsCollection[i].apartmentNo = apartmentNo
        /\ agreementsCollection[i].status = "checked"
        /\ HasRole(agreementsCollection[i].email, "member")
\* The headers whose token the identity provider accepts, with the principal's
\* email, and the caller of each role among them.
Principals == {h \in Headers : Authenticate[h].code = 0}
Callers(role) == {h \in Principals : HasRole(Authenticate[h].email, role)}

\* C1 (I1): in every reachable state, every email owns at most one agreement
\* whose status is pending or checked.
C1_OneActivePerEmail ==
    \A e \in Emails :
        Cardinality({i \in Agreements :
                        /\ agreementsCollection[i].email = e
                        /\ agreementsCollection[i].status \in {"pending", "checked"}})
            <= 1

\* C2 (I2): in every reachable state, every apartment has at most one checked
\* agreement whose owner's current role is member.
C2_OneOccupantPerApartment ==
    \A bl \in Blocks, ap \in ApartmentNos :
        Cardinality({i \in Agreements :
                        /\ agreementsCollection[i].blockName = bl
                        /\ agreementsCollection[i].apartmentNo = ap
                        /\ agreementsCollection[i].status = "checked"
                        /\ HasRole(agreementsCollection[i].email, "member")})
            <= 1

\* C3 (I3): after every successfully completed request, every checked
\* agreement has an owner whose role is member.
C3_CheckedImpliesMember ==
    res.code = 200 =>
        \A i \in Agreements :
            agreementsCollection[i].status = "checked"
                => HasRole(agreementsCollection[i].email, "member")

\* C4: every step that inserts an agreement leaves the inserted agreement
\* with status pending, whatever status the body carried.
C4_SubmitForcesPending ==
    [][Len(agreementsCollection') > Len(agreementsCollection)
         => agreementsCollection'[Len(agreementsCollection')].status = "pending"]_vars

\* C5: for a verified principal, each gated route runs its handler exactly
\* when a user record with the principal's email holds the route's role;
\* otherwise it answers 403 and leaves both collections unchanged.
C5_AccessGuardExact ==
    \A h \in Principals :
        LET pass(role) == HasRole(Authenticate[h].email, role)
        IN /\ \A b \in AgreementBodies :
                IF pass("user")
                THEN PostAgreementsRoute(h, b) = PostAgreementsHandler(b)
                ELSE PostAgreementsRoute(h, b) = Send(403)
           /\ \A id \in AgreementIds, st \in DecideStatuses, ro \in DecideRoles :
                IF pass("admin")
                THEN PatchAgreementsRoute(h, id, st, ro)
                        = PatchAgreementsHandler(id, st, ro)
                ELSE PatchAgreementsRoute(h, id, st, ro) = Send(403)
           /\ \A id \in UserIds, ro \in RoleBodies :
                IF pass("admin")
                THEN PatchUsersRoute(h, id, ro) = PatchUsersHandler(id, ro)
                ELSE PatchUsersRoute(h, id, ro) = Send(403)
           /\ \A e \in PaymentQueries :
                IF pass("member")
                THEN GetPaymentsRoute(h, e) = GetPaymentsHandler(e)
                ELSE GetPaymentsRoute(h, e) = Send(403)
           /\ \A b \in AgreementBodies : PostAgreementsHandler(b).code # 403
           /\ \A id \in AgreementIds, st \in DecideStatuses, ro \in DecideRoles :
                PatchAgreementsHandler(id, st, ro).code # 403

\* C5 witness: a member was just refused (403) on the admin-only decide route
\* and an admin on the user-only submit route, with an agreement stored.
C5_Witness ==
    /\ res.code = 403
    /\ HasRole("a", "member") /\ HasRole("r", "admin")
    /\ Len(agreementsCollection) > 0
    /\ PatchAgreementsRoute(HeaderA, 1, Undefined, "member") = Send(403)
    /\ \A b \in AgreementBodies : PostAgreementsRoute(HeaderR, b) = Send(403)

\* C6: on every guarded route a request without authorization header, or
\* whose header has no token part, is answered 401; one whose token the
\* provider rejects is answered 403; both leave the collections unchanged and
\* reach no role gate or handler; a header with an accepted token yields the
\* token's principal and is answered neither 401 nor by the verifier.
NoCredential ==
    {NoHeader, Hdr(<<>>), Hdr(<<"B">>), Hdr(<<"a">>), Hdr(<<"B", " ">>)}
BadCredential == {Hdr(<<"B", " ", "x">>)}
ExpectedVerifier(h) ==
    IF h \in NoCredential THEN 401 ELSE IF h \in BadCredential THEN 403 ELSE 0
C6_VerifierOutcome ==
    /\ \A h \in Headers : Authenticate[h].code = ExpectedVerifier(h)
    /\ Authenticate[HeaderA].email = "a" /\ Authenticate[HeaderR].email = "r"
    /\ \A h \in NoCredential \cup BadCredential :
        /\ \A b \in AgreementBodies :
                PostAgreementsRoute(h, b) = Send(ExpectedVerifier(h))
        /\ \A id \in AgreementIds, st \in DecideStatuses, ro \in DecideRoles :
                PatchAgreementsRoute(h, id, st, ro) = Send(ExpectedVerifier(h))
        /\ \A id \in UserIds, ro \in RoleBodies :
                PatchUsersRoute(h, id, ro) = Send(ExpectedVerifier(h))
        /\ \A e \in PaymentQueries :
                GetPaymentsRoute(h, e) = Send(ExpectedVerifier(h))
    /\ \A h \in Headers \ (NoCredential \cup BadCredential) :
        \A b \in AgreementBodies : PostAgreementsRoute(h, b).code # 401

\* C6 witness: a request was just answered 401 while agreements and a second
\* user are stored.
C6_Witness ==
    /\ res.code = 401
    /\ Len(agreementsCollection) > 0
    /\ Len(usersCollection) > 1

\* C7: a submit by a user-role caller whose body email owns a pending or
\* checked agreement is answered 400 with both collections unchanged; when
\* the email owns no such agreement a 400 comes from the occupancy check only.
C7_DuplicateAgreement ==
    \A h \in Callers("user"), b \in AgreementBodies :
        /\ Active(b.email) => PostAgreementsRoute(h, b) = Send(400)
        /\ ~Active(b.email) /\ PostAgreementsRoute(h, b).code = 400
                => Occupied(b.blockName, b.apartmentNo)

\* C7 witness: user a, who owns an active agreement, was just answered 400,
\* and no member or admin is left who could have been answered 400 elsewhere.
C7_Witness ==
    /\ res.code = 400
    /\ Active("a")
    /\ \A u \in Users : usersCollection[u].role = "user"
    /\ HeaderA \in Callers("user")

\* C8: a submit by a user-role caller that passes the duplicate check is
\* answered 400 with both collections unchanged exactly when the apartment
\* has a checked agreement whose owner is a member; otherwise it is answered
\* 200 and the body is appended to the agreements.
C8_ApartmentOccupied ==
    \A h \in Callers("user"), b \in AgreementBodies :
        ~Active(b.email) =>
            IF Occupied(b.blockName, b.apartmentNo)
            THEN PostAgreementsRoute(h, b) = Send(400)
            ELSE PostAgreementsRoute(h, b)
                    = Out(200, Append(agreementsCollection, b), usersCollection)

\* C8 witness: member a holds a checked agreement, r is a user-role caller,
\* the email "" owns no active agreement, a request was just answered 400 and
\* r's submit for a's apartment in the name of "" is answered 400.
C8_Witness ==
    /\ res.code = 400
    /\ HeaderR \in Callers("user")
    /\ \E i \in Agreements :
        /\ agreementsCollection[i].email = "a"
        /\ agreementsCollection[i].status = "checked"
        /\ HasRole("a", "member")
        /\ ~Active("")
        /\ PostAgreementsRoute(HeaderR,
              [email |-> "", blockName |-> agreementsCollection[i].blockName,
               apartmentNo |-> agreementsCollection[i].apartmentNo,
               status |-> "pending", acceptedDate |-> Undefined]) = Send(400)

\* C9: whenever a decide with role member on an existing agreement is
\* answered 200, the agreement has acceptedDate set and every user record
\* with the agreement's email has role member.
C9_ApprovalPromotes ==
    \A h \in Headers, id \in Agreements, st \in DecideStatuses :
        LET o == PatchAgreementsRoute(h, id, st, "member")
        IN o.code = 200 =>
            /\ o.agreements[id].acceptedDate # Undefined
            /\ \A u \in 1..Len(o.users) :
                o.users[u].email = o.agreements[id].email
                    => o.users[u].role = "member"

\* C10 (I4): in every reachable state an agreement with acceptedDate set has
\* status checked.
C10_AcceptedDateOnlyWhenChecked ==
    \A i \in Agreements :
        agreementsCollection[i].acceptedDate # Undefined
            => agreementsCollection[i].status = "checked"

\* C11: no step changes an agreement's status from a non-pending value back
\* to pending, and no step changes the status of a checked agreement.
C11_LifecycleMonotone ==
    [][\A i \in Agreements :
          /\ agreementsCollection[i].status # "pending"
                => agreementsCollection'[i].status # "pending"
          /\ agreementsCollection[i].status = "checked"
                => agreementsCollection'[i].status = "checked"]_vars

\* C12: after the statistics are served, the reported total is the number of
\* apartments, the unavailable count is the number of apartments for which
\* some checked agreement has the same blockName and the same apartmentNo,
\* available is total minus unavailable, the percentages are those of these
\* counts, and with no apartment both percentages are 0.
PairUnavailable ==
    Cardinality({i \in 1..Len(apartmentsCollection) :
        \E j \in Agreements :
            /\ agreementsCollection[j].status = "checked"
            /\ agreementsCollection[j].blockName = apartmentsCollection[i].blockName
            /\ agreementsCollection[j].apartmentNo
                    = apartmentsCollection[i].apartmentNo})
C12_StatsOfSnapshot ==
    res.code = 200 =>
        LET st == ApartmentStats(apartmentsCollection, agreementsCollection)
            total == Len(apartmentsCollection)
        IN /\ res.total = total
           /\ st.unavailable = PairUnavailable
           /\ st.available = total - PairUnavailable
           /\ IF total = 0
              THEN res.availablePercentage = 0 /\ res.unavailablePercentage = 0
              ELSE /\ res.unavailablePercentage = ToFixed2(PairUnavailable, total)
                   /\ res.availablePercentage
                        = ToFixed2(total - PairUnavailable, total)

\* C13: a decide by an admin whose id is not well-formed is answered 400 and
\* leaves agreements and users unchanged, whatever status and role it carries.
MalformedIds == {0}
C13_InvalidId ==
    \A h \in Callers("admin"), id \in MalformedIds,
       st \in DecideStatuses, ro \in DecideRoles :
        PatchAgreementsRoute(h, id, st, ro) = Send(400)

\* C13 witness: a request was just answered 400 where only a malformed decide
\* is: an admin exists, no email is active, no apartment occupied and nobody
\* is a member, while a rejected agreement is there for a decide to change.
C13_Witness ==
    /\ res.code = 400
    /\ HeaderR \in Callers("admin")
    /\ Len(agreementsCollection) > 0
    /\ \A i \in Agreements : agreementsCollection[i].status = "rejected"
    /\ \A u \in Users : usersCollection[u].role # "member"

\* C14: every decide step either applies the transition to an existing
\* agreement and answers with the success confirmation (200), or answers with
\* a named failure and changes nothing; a decide whose well-formed id matches
\* no agreement is never answered 200.
NamedFailures == {400, 401, 403, 404, 500}
C14_NoSilentSuccess ==
    [][\A h \in Headers, id \in AgreementIds,
          st \in DecideStatuses, ro \in DecideRoles :
            PatchAgreements(h, id, st, ro) =>
                \/ /\ res'.code = 200
                   /\ id \in Agreements
                   /\ agreementsCollection'[id].status
                        = (IF Falsy(st) THEN "checked" ELSE st)
                \/ /\ res'.code \in NamedFailures
                   /\ UNCHANGED <<agreementsCollection, usersCollection>>]_vars

\* A step of request r whose awaited call returns (fault FALSE) or throws.
Step(r, fault) ==
    \/ VerifyIdTokenStep(r, fault)
    \/ VerifyRoleStep(r, fault)
    \/ ExistingAgreementStep(r, fault)
    \/ CheckedAgreementsStep(r, fault)
    \/ MemberUserStep(r, fault)
    \/ InsertAgreementStep(r, fault)
    \/ UpdateAgreementStep(r, fault)
    \/ FindAgreementStep(r, fault)
    \/ UpdateUserStep(r, fault)
    \/ ExistingUserStep(r, fault)
    \/ InsertUserStep(r, fault)
Guarded == {"POST /agreements", "PATCH /agreements/:id"}

\* C15: whenever a call to the identity provider or to the store fails during
\* a submit or a decide, the role lookup of the access guard included, that
\* request is answered 500.
C15_FailuresSurfaceAs500 ==
    [][\A r \in InFlight :
          r.route \in Guarded /\ Step(r, TRUE) => res'.code = 500]_vars

\* C16: after any sequence of user-creation requests, interleaved at their
\* store calls or not, there is at most one user record per email.
C16_OneUserPerEmail ==
    \A u \in Users, v \in Users :
        usersCollection[u].email = usersCollection[v].email => u = v

\* C17: a submit that has passed its duplicate and occupancy checks persists
\* its agreement and answers 200 at its insert, also when by then another
\* request has inserted a pending or checked agreement of the same email:
\* nothing is checked again at the write.
C17_SubmitRace ==
    [][\A r \in InFlight :
          /\ r.route = "POST /agreements"
          /\ Active(r.arg.email)
          /\ InsertAgreementStep(r, FALSE)
          => /\ agreementsCollection' = Append(agreementsCollection, r.arg)
             /\ res'.code = 200]_vars

\* C17 witness: two submits of email a have both been answered and both
\* agreements are persisted, pending, for the same apartment.
C17_Witness ==
    /\ requests = EmptyBag
    /\ res.code = 200
    /\ Len(agreementsCollection) = 2
    /\ \A i \in Agreements :
        /\ agreementsCollection[i].email = "a"
        /\ agreementsCollection[i].status = "pending"
    /\ agreementsCollection[1].apartmentNo = agreementsCollection[2].apartmentNo

\* C18: a decide with role member writes the agreement first, as a step of
\* its own that leaves the users alone and sends no response; when a later
\* call of that request fails, the agreement stays as written, the users are
\* unchanged and the request is not answered 200.
C18_TwoStepWrite ==
    [][\A r \in InFlight :
          r.route = "PATCH /agreements/:id" /\ r.arg[3] = "member" =>
            /\ UpdateAgreementStep(r, FALSE) =>
                /\ usersCollection' = usersCollection
                /\ res' = res
                /\ [r EXCEPT !.pc = "agreement"] \in BagToSet(requests')
                /\ r.arg[1] \in Agreements =>
                    /\ agreementsCollection'[r.arg[1]].status = "checked"
                    /\ agreementsCollection'[r.arg[1]].acceptedDate = Now
            /\ r.pc \in {"agreement", "updateUser"} /\ Step(r, TRUE) =>
                /\ agreementsCollection' = agreementsCollection
                /\ usersCollection' = usersCollection
                /\ res'.code # 200]_vars

\* C18 witness: no request is in flight, the last one was answered 500, and
\* agreement 1 is checked with acceptedDate set while every record of its
\* owner a still has role user.
C18_Witness ==
    /\ requests = EmptyBag
    /\ res.code = 500
    /\ Len(agreementsCollection) >= 1
    /\ agreementsCollection[1].status = "checked"
    /\ agreementsCollection[1].acceptedDate = Now
    /\ agreementsCollection[1].email = "a"
    /\ HasRole("a", "user") /\ ~HasRole("a", "member")

\* C19: every agreement a submit persists has the email of the verified
\* principal of the request that created it.
C19_OwnershipBinding ==
    [][\A h \in Headers, b \in FormBodies :
          /\ PostAgreements(h, b)
          /\ Len(agreementsCollection') > Len(agreementsCollection)
          => agreementsCollection'[Len(agreementsCollection')].email
                = Authenticate[h].email]_vars

\* C20: no POST /users and no submit creates or changes a user record so that
\* its role is member or admin, and a decide changes only records of the
\* decided agreement's owner, for an admin caller and with role member.
Privileged(users) ==
    {<<i, users[i]>> : i \in {j \in 1..Len(users) :
                                users[j].role \in {"member", "admin"}}}
C20_RolesAdminMediated ==
    [][/\ \A u \in UserBodies :
            PostUsers(u) => Privileged(usersCollection')
                                \subseteq Privileged(usersCollection)
       /\ \A h \in Headers, b \in FormBodies :
            PostAgreements(h, b) => Privileged(usersCollection')
                                        \subseteq Privileged(usersCollection)
       /\ \A h \in Headers, id \in AgreementIds,
             st \in DecideStatuses, ro \in DecideRoles :
            PatchAgreements(h, id, st, ro) =>
                \A i \in Users :
                    usersCollection'[i] # usersCollection[i] =>
                        /\ h \in Callers("admin")
                        /\ ro = "member"
                        /\ id \in Agreements
                        /\ usersCollection[i].email
                                = agreementsCollection[id].email]_vars

====
